---- MODULE Spec2Model ----
(***************************************************************************)
(* A model of xquant: the backtest driver (xquant/backtest/backtest.py),   *)
(* the holdings timeline (xquant/backtest/holdings.py), periods            *)
(* (xquant/util/period.py), portfolio valuation (xquant/portfolio.py),     *)
(* transactions (xquant/transaction.py) and the metrics                    *)
(* (xquant/backtest/metrics.py).                                           *)
(*                                                                         *)
(* Timestamps are day ordinals: day 0 is 2020-01-01.  A Python value is a  *)
(* record [k, v]: k = "num" (a number v), "nan" (float NaN), or the name   *)
(* of the exception the evaluation raised.                                 *)
(***************************************************************************)
EXTENDS Integers, Sequences, FiniteSets, TLC

VARIABLES
    args,            \* run_backtest's arguments: start_time, end_time, init_funds, rebalance_freq
    df_price,        \* the price table (pandas.DataFrame) in use
    now,             \* run_backtest: the loop variable `now`
    holdings,        \* Holdings.holdings: a dict Period -> Portfolio, in insertion order
    last_portfolio,  \* run_backtest: `last_portfolio` (None before the first iteration)
    pc,              \* where the operation under way is: "loop", "returned", "raised", "idle"
    calls,           \* the selector calls made so far: <<[funds, date], ...>>
    selector_failed, \* whether the selector callback raised
    portfolio,       \* the Portfolio a valuation is asked of
    query,           \* the last call made: [op, time, nargs]
    result,          \* what the last call returned or raised
    period_obj,      \* the Period under test (None before one is constructed)
    prices,          \* the strategy's price series (pandas.Series) a metric is asked of
    benchmark        \* the benchmark's price series

vars == <<args, df_price, now, holdings, last_portfolio, pc, calls,
          selector_failed, portfolio, query, result, period_obj,
          prices, benchmark>>

-----------------------------------------------------------------------------
(* Bounds of the model *)

\* rebalance_freq ranges over 1..MaxFreq (months)
MaxFreq == 2
\* end_time - start_time ranges over 0..MaxHorizonWeeks weeks
MaxHorizonWeeks == 10
\* init_funds ranges over 1..MaxFunds
MaxFunds == 2
\* the periods of a Holdings under test lie in 0..MaxDay
MaxDay == 4
\* a Holdings under test holds at most MaxPeriods periods
MaxPeriods == 2
\* the price table's dates range over 0..MaxPriceDay
MaxPriceDay == 1
\* prices range over 1..MaxPrice
MaxPrice == 2
\* share counts range over 1..MaxShares
MaxShares == 2
\* a price series holds 1..MaxSeriesLen days
MaxSeriesLen == 3
MaxQuote == 3

-----------------------------------------------------------------------------
(* Python values *)

Num(n) == [k |-> "num", v |-> n]

NaN == [k |-> "nan", v |-> 0]

None == [k |-> "None", v |-> 0]

Raise(e) == [k |-> e, v |-> 0]

\* numpy.float64 values: +inf, -inf, and a finite non-zero float of sign v
\* (1 or -1) whose magnitude is left out: a square root or a fractional
\* power has no exact value
PosInf == [k |-> "inf", v |-> 0]

NegInf == [k |-> "-inf", v |-> 0]

Float(sign) == [k |-> "float", v |-> sign]

IsErr(x) == x.k \notin {"num", "nan", "None", "inf", "-inf", "float", "frac", "Series"}

\* float multiplication price * shares: NaN is absorbing
FMul(x, n) == IF x.k = "num" THEN Num(x.v * n) ELSE x

\* float addition a + b: NaN is absorbing
FAdd(x, y) ==
    IF x.k = "num" /\ y.k = "num" THEN Num(x.v + y.v)
    ELSE IF x.k = "num" THEN y ELSE x

\* float subtraction a - b
FSub(x, y) ==
    IF x.k = "num" /\ y.k = "num" THEN Num(x.v - y.v)
    ELSE IF x.k = "num" THEN y ELSE x

-----------------------------------------------------------------------------
(* Calendar arithmetic: datetime + dateutil.relativedelta *)

IsLeap(y) == (y % 4 = 0 /\ y % 100 # 0) \/ y % 400 = 0

MonthLen(y, m) ==
    IF m = 2 THEN (IF IsLeap(y) THEN 29 ELSE 28)
    ELSE IF m \in {4, 6, 9, 11} THEN 30 ELSE 31

DaysInYear(y) == IF IsLeap(y) THEN 366 ELSE 365

RECURSIVE DaysBeforeMonth(_, _)
DaysBeforeMonth(y, m) ==
    IF m = 1 THEN 0 ELSE DaysBeforeMonth(y, m - 1) + MonthLen(y, m - 1)

RECURSIVE DaysBeforeYear(_)
DaysBeforeYear(y) ==
    IF y = 2020 THEN 0 ELSE DaysBeforeYear(y - 1) + DaysInYear(y - 1)

\* the timestamp of the calendar date y-m-d
Date(y, m, d) == DaysBeforeYear(y) + DaysBeforeMonth(y, m) + (d - 1)

RECURSIVE YearOf(_, _)
YearOf(t, y) == IF t < DaysInYear(y) THEN <<y, t>> ELSE YearOf(t - DaysInYear(y), y + 1)

RECURSIVE MonthOf(_, _, _)
MonthOf(y, r, m) ==
    IF r < MonthLen(y, m) THEN <<m, r + 1>> ELSE MonthOf(y, r - MonthLen(y, m), m + 1)

\* the calendar date [y, m, d] of timestamp t
Ymd(t) ==
    LET yr == YearOf(t, 2020)
        md == MonthOf(yr[1], yr[2], 1)
    IN [y |-> yr[1], m |-> md[1], d |-> md[2]]

Min(a, b) == IF a <= b THEN a ELSE b

\* t + relativedelta(months=n): the day of the month is clipped to the
\* target month's length
AddMonths(t, n) ==
    LET c == Ymd(t)
        total == (c.m - 1) + n
        y2 == c.y + (total \div 12)
        m2 == (total % 12) + 1
    IN Date(y2, m2, Min(c.d, MonthLen(y2, m2)))

\* t + relativedelta(days=n), t - relativedelta(days=n)
AddDays(t, n) == t + n

-----------------------------------------------------------------------------
(* xquant/util/__init__.py *)

\* every timestamp of the model is a pandas.Timestamp / datetime
IsTimestamp(v) == v \in Int

\* check_time(**kwargs): npos is the number of positional arguments the
\* call passes, kwargs the set of keyword values.  The function takes
\* keyword arguments only.
check_time(npos, kwargs) ==
    IF npos > 0 THEN Raise("TypeError")
    ELSE IF \A v \in kwargs : IsTimestamp(v) THEN Num(1) ELSE Num(0)

\* `assert e`: e raised, e is falsy, or e is truthy
AssertOf(e) ==
    IF IsErr(e) THEN e
    ELSE IF e.k = "num" /\ e.v = 0 THEN Raise("AssertionError")
    ELSE None

-----------------------------------------------------------------------------
(* xquant/util/period.py *)

\* a constructor without the assertions on the duration's sign
NewPeriod_unchecked(start_time, end_time, duration) ==
    IF end_time # None THEN
        IF duration # None THEN [k |-> "AssertionError", p |-> None]
        ELSE [k |-> "Period",
              p |-> [start_time |-> start_time, end_time |-> end_time.v,
                     duration |-> end_time.v - start_time]]
    ELSE
        IF duration = None THEN [k |-> "AttributeError", p |-> None]
        ELSE [k |-> "Period",
              p |-> [start_time |-> start_time, end_time |-> start_time + duration.v,
                     duration |-> duration.v]]

\* a constructor in which end_time wins when duration is supplied too
NewPeriod_end_wins(start_time, end_time, duration) ==
    IF end_time # None THEN
        IF ~(end_time.v - start_time > 0) THEN [k |-> "AssertionError", p |-> None]
        ELSE [k |-> "Period",
              p |-> [start_time |-> start_time, end_time |-> end_time.v,
                     duration |-> end_time.v - start_time]]
    ELSE
        IF duration = None THEN [k |-> "AttributeError", p |-> None]
        ELSE IF ~(duration.v > 0) THEN [k |-> "AssertionError", p |-> None]
        ELSE [k |-> "Period",
              p |-> [start_time |-> start_time, end_time |-> start_time + duration.v,
                     duration |-> duration.v]]

\* Period.__init__(start_time, end_time, duration): end_time and duration
\* are None or Num(n).  The result is [k |-> "Period", p |-> the object]
\* or the exception raised.
NewPeriod(start_time, end_time, duration) ==
    IF end_time # None THEN
        IF ~(end_time.v - start_time > 0) THEN [k |-> "AssertionError", p |-> None]
        ELSE IF duration # None THEN [k |-> "AssertionError", p |-> None]
        ELSE [k |-> "Period",
              p |-> [start_time |-> start_time, end_time |-> end_time.v,
                     duration |-> end_time.v - start_time]]
    ELSE
        IF duration = None THEN [k |-> "AttributeError", p |-> None]
        ELSE IF ~(duration.v > 0) THEN [k |-> "AssertionError", p |-> None]
        ELSE [k |-> "Period",
              p |-> [start_time |-> start_time, end_time |-> start_time + duration.v,
                     duration |-> duration.v]]

\* a containment test that leaves end_time out
contains_time_half_open(self, time) ==
    LET a == AssertOf(check_time(0, {time}))
    IN IF IsErr(a) THEN a
       ELSE IF self.start_time <= time /\ time < self.end_time THEN Num(1) ELSE Num(0)

\* a containment test that leaves start_time out
contains_time_after_start(self, time) ==
    LET a == AssertOf(check_time(0, {time}))
    IN IF IsErr(a) THEN a
       ELSE IF self.start_time < time /\ time <= self.end_time THEN Num(1) ELSE Num(0)

\* Period.contains_time(time)
contains_time(self, time) ==
    LET a == AssertOf(check_time(0, {time}))
    IN IF IsErr(a) THEN a
       ELSE IF self.start_time <= time /\ time <= self.end_time THEN Num(1) ELSE Num(0)

\* an equality by start_time alone
PeriodEq_by_start(a, b) == a.start_time = b.start_time

\* Period.__eq__ (and __hash__): by the (start_time, end_time) pair
PeriodEq(a, b) == a.start_time = b.start_time /\ a.end_time = b.end_time

\* Period.__lt__ and Period.__gt__: by start_time
period_lt(self, o) == self.start_time < o.start_time

period_gt(self, o) == self.start_time > o.start_time

\* Period.__ne__
period_ne(self, o) == ~PeriodEq(self, o)

\* Period.__hash__: hash((start_time, end_time)); the tuple stands for its hash
period_hash(self) == <<self.start_time, self.end_time>>

-----------------------------------------------------------------------------
(* The price table: a pandas.DataFrame with a sorted DatetimeIndex.
   [columns: the tickers, index: the dates, data: date -> ticker -> value] *)

\* df.loc[:date]
loc_upto(df, date) ==
    LET idx == {d \in df.index : d <= date}
    IN [columns |-> df.columns, index |-> idx, data |-> [d \in idx |-> df.data[d]]]

\* df.at[row, col]: KeyError when the row label or the column is absent
at(df, row, col) ==
    IF row \in df.index /\ col \in df.columns THEN df.data[row][col]
    ELSE Raise("KeyError")

\* df[col].last_valid_index(): the last date with a non-NaN entry, or None
last_valid_index(df, col) ==
    LET valid == {d \in df.index : df.data[d][col].k = "num"}
    IN IF valid = {} THEN None
       ELSE Num(CHOOSE d \in valid : \A e \in valid : e <= d)

-----------------------------------------------------------------------------
(* xquant/portfolio.py *)

\* Portfolio(long, short, cash)
NewPortfolio(long, short, cash) == [long |-> long, short |-> short, cash |-> cash]

\* the try/except of get_stock_liquidation: the price at `date`, or on
\* KeyError the price at the ticker's last valid date
PriceAt(df, date, stock) ==
    LET p == at(df, date, stock)
    IN IF p.k # "KeyError" THEN p
       ELSE IF stock \notin df.columns THEN Raise("KeyError")
       ELSE LET last_traded == last_valid_index(df, stock)
            IN IF last_traded = None THEN Raise("KeyError")
               ELSE at(df, last_traded.v, stock)

\* the loop `for stock, shares in positions.items()`: the sum of
\* price * shares, or the first exception
RECURSIVE PositionsValue(_, _, _, _)
PositionsValue(df, date, positions, todo) ==
    IF todo = {} THEN Num(0)
    ELSE LET stock == CHOOSE s \in todo : TRUE
             price == PriceAt(df, date, stock)
             rest == PositionsValue(df, date, positions, todo \ {stock})
         IN IF IsErr(price) THEN price
            ELSE IF IsErr(rest) THEN rest
            ELSE FAdd(FMul(price, positions[stock]), rest)

\* the body of get_stock_liquidation after its assertion
StockLiquidationBody(self, date, df_prices) ==
    LET df == loc_upto(df_prices, date)
        longs == PositionsValue(df, date, self.long, DOMAIN self.long)
        shorts == PositionsValue(df, date, self.short, DOMAIN self.short)
    IN IF IsErr(longs) THEN longs
       ELSE IF IsErr(shorts) THEN shorts
       ELSE FSub(longs, shorts)

\* a valuation without the assertion on its date
get_stock_liquidation_unchecked(self, a) ==
    IF Len(a) # 2 THEN Raise("TypeError")
    ELSE StockLiquidationBody(self, a[1], a[2])

\* Portfolio.get_stock_liquidation(*a): a is the tuple of positional
\* arguments of the call; the method takes (date, df_prices)
get_stock_liquidation(self, a) ==
    IF Len(a) # 2 THEN Raise("TypeError")
    ELSE LET chk == AssertOf(check_time(1, {}))
         IN IF IsErr(chk) THEN chk
            ELSE StockLiquidationBody(self, a[1], a[2])

\* Portfolio.get_net_liquidation(*a): the method takes (date=None)
get_net_liquidation(self, a) ==
    IF Len(a) > 1 THEN Raise("TypeError")
    ELSE LET date == IF Len(a) = 1 THEN a[1] ELSE None
             stock == get_stock_liquidation(self, <<date>>)
         IN IF IsErr(stock) THEN stock
            ELSE FAdd(stock, Num(self.cash))

-----------------------------------------------------------------------------
(* xquant/transaction.py: a call returns [pf, r], the portfolio as the call
   leaves it (the call changes it in place) and what the call returned or
   raised *)

\* `ticker in d.keys`: d.keys is the method itself, not the keys it
\* returns, and a method is not a container
in_keys(ticker, d) == Raise("TypeError")

\* a buy that does not compare cash with the order's value
buy_unchecked(pf, df_prices, ticker, shares, date) ==
    LET price == at(df_prices, date, ticker)
    IN IF IsErr(price) THEN [pf |-> pf, r |-> [k |-> price.k, v |-> None]]
       ELSE LET paid == [pf EXCEPT !.cash = @ - price.v * shares]
                held == in_keys(ticker, pf.long)
            IN IF IsErr(held)
               THEN [pf |-> paid, r |-> [k |-> held.k, v |-> None]]
               ELSE LET bought ==
                          [paid EXCEPT !.long =
                              IF held.v = 1 THEN [@ EXCEPT ![ticker] = @ + shares]
                              ELSE (ticker :> shares) @@ @]
                    IN [pf |-> bought, r |-> [k |-> "Portfolio", v |-> bought]]

\* buy(portfolio, df_prices, ticker, shares, date)
buy(pf, df_prices, ticker, shares, date) ==
    LET price == at(df_prices, date, ticker)
    IN IF IsErr(price) THEN [pf |-> pf, r |-> [k |-> price.k, v |-> None]]
       ELSE LET total_value == price.v * shares
                paid == [pf EXCEPT !.cash = @ - total_value]
                held == in_keys(ticker, pf.long)
            IN IF pf.cash < total_value
               THEN [pf |-> pf, r |-> [k |-> "Exception", v |-> None]]
               ELSE IF IsErr(held)
               THEN [pf |-> paid, r |-> [k |-> held.k, v |-> None]]
               ELSE LET bought ==
                          [paid EXCEPT !.long =
                              IF held.v = 1 THEN [@ EXCEPT ![ticker] = @ + shares]
                              ELSE (ticker :> shares) @@ @]
                    IN [pf |-> bought, r |-> [k |-> "Portfolio", v |-> bought]]

\* sell(portfolio, df_prices, ticker, shares, date)
sell(pf, df_prices, ticker, shares, date) ==
    LET held == in_keys(ticker, pf.long)
    IN IF IsErr(held) THEN [pf |-> pf, r |-> [k |-> held.k, v |-> None]]
       ELSE IF held.v = 0 \/ pf.long[ticker] < shares
       THEN [pf |-> pf, r |-> [k |-> "Exception", v |-> None]]
       ELSE LET sold == [pf EXCEPT !.long[ticker] = @ - shares]
                price == at(df_prices, date, ticker)
            IN IF IsErr(price) THEN [pf |-> sold, r |-> [k |-> price.k, v |-> None]]
               ELSE LET paid == [sold EXCEPT !.cash = @ + price.v * shares]
                    IN [pf |-> paid, r |-> [k |-> "Portfolio", v |-> paid]]

\* short(portfolio, df_prices, ticker, shares, date)
short(pf, df_prices, ticker, shares, date) ==
    LET held == in_keys(ticker, pf.short)
    IN IF IsErr(held) THEN [pf |-> pf, r |-> [k |-> held.k, v |-> None]]
       ELSE LET shorted ==
                  [pf EXCEPT !.short =
                      IF held.v = 1 THEN [@ EXCEPT ![ticker] = @ + shares]
                      ELSE (ticker :> shares) @@ @]
                price == at(df_prices, date, ticker)
            IN IF IsErr(price)
               THEN [pf |-> shorted, r |-> [k |-> price.k, v |-> None]]
               ELSE LET paid == [shorted EXCEPT !.cash = @ + price.v * shares]
                    IN [pf |-> paid, r |-> [k |-> "Portfolio", v |-> paid]]

-----------------------------------------------------------------------------
(* xquant/backtest/holdings.py *)

\* Holdings(holdings={})
NewHoldings == <<>>

\* holdings.holdings[period] = portfolio: a dict keeps insertion order and
\* an equal key keeps its place
DictSet(d, period, pf) ==
    IF \E i \in 1..Len(d) : PeriodEq(d[i].period, period)
    THEN [i \in 1..Len(d) |->
            IF PeriodEq(d[i].period, period)
            THEN [period |-> d[i].period, portfolio |-> pf] ELSE d[i]]
    ELSE Append(d, [period |-> period, portfolio |-> pf])

\* Holdings.get_portfolio(time): the first item, in dict order, whose
\* period contains time; Exception when there is none
RECURSIVE ScanHoldings(_, _, _)
ScanHoldings(d, time, i) ==
    IF i > Len(d) THEN [k |-> "Exception", v |-> None]
    ELSE LET c == contains_time(d[i].period, time)
         IN IF IsErr(c) THEN [k |-> c.k, v |-> None]
            ELSE IF c.v = 1 THEN [k |-> "Portfolio", v |-> d[i].portfolio]
            ELSE ScanHoldings(d, time, i + 1)

\* a scan in which the last containing period wins
RECURSIVE ScanHoldingsBackwards(_, _, _)
ScanHoldingsBackwards(d, time, i) ==
    IF i < 1 THEN [k |-> "Exception", v |-> None]
    ELSE LET c == contains_time(d[i].period, time)
         IN IF IsErr(c) THEN [k |-> c.k, v |-> None]
            ELSE IF c.v = 1 THEN [k |-> "Portfolio", v |-> d[i].portfolio]
            ELSE ScanHoldingsBackwards(d, time, i - 1)

get_portfolio_last_wins(self, time) == ScanHoldingsBackwards(self, time, Len(self))

\* a lookup that falls back to the latest recorded portfolio on a miss
get_portfolio_fallback(self, time) ==
    LET r == ScanHoldings(self, time, 1)
    IN IF r.k = "Exception" /\ Len(self) > 0
       THEN [k |-> "Portfolio", v |-> self[Len(self)].portfolio]
       ELSE r

get_portfolio(self, time) == ScanHoldings(self, time, 1)

\* the earliest start_time and the latest end_time of the recorded periods
FirstStart(self) ==
    CHOOSE t \in {self[i].period.start_time : i \in 1..Len(self)} :
        \A i \in 1..Len(self) : t <= self[i].period.start_time

LastEnd(self) ==
    CHOOSE t \in {self[i].period.end_time : i \in 1..Len(self)} :
        \A i \in 1..Len(self) : self[i].period.end_time <= t

\* the loop of generate_performance over the days day..end_date: the list
\* of [day, portfolio, value], or the first exception
RECURSIVE DailyValues(_, _, _, _)
DailyValues(self, df, day, end_date) ==
    IF day > end_date THEN [k |-> "list", v |-> <<>>]
    ELSE LET pf == get_portfolio(self, day)
         IN IF pf.k # "Portfolio" THEN [k |-> pf.k, v |-> <<>>]
            ELSE LET value == get_net_liquidation(pf.v, <<day, df>>)
                     rest == DailyValues(self, df, day + 1, end_date)
                 IN IF IsErr(value) THEN [k |-> value.k, v |-> <<>>]
                    ELSE IF rest.k # "list" THEN rest
                    ELSE [k |-> "list",
                          v |-> <<[t |-> day, portfolio |-> pf.v, value |-> value]>>
                                  \o rest.v]

\* value / first * normalize: the fraction [n, d] = n / d, NaN when either
\* operand is, and inf or NaN when a numpy zero divides
Normalized(value, first, normalize) ==
    IF value.k = "nan" \/ first.k = "nan" THEN NaN
    ELSE IF first.v = 0
    THEN (IF value.v = 0 THEN NaN ELSE IF value.v > 0 THEN PosInf ELSE NegInf)
    ELSE [k |-> "frac", n |-> value.v * normalize, d |-> first.v]

\* Holdings.generate_performance(df_price, normalize): the Series as the
\* list of [t, p] (index, value), or the exception raised
generate_performance(self, df, normalize) ==
    IF Len(self) = 0 THEN [k |-> "IndexError", v |-> <<>>]
    ELSE LET values == DailyValues(self, df, FirstStart(self), LastEnd(self))
         IN IF values.k # "list" THEN values
            ELSE LET first == values.v[1]
                 IN IF first.value.k = "num" /\ first.value.v = 0
                       /\ first.portfolio.long = <<>> /\ first.portfolio.short = <<>>
                    THEN [k |-> "ZeroDivisionError", v |-> <<>>]
                    ELSE [k |-> "Series",
                          v |-> [i \in 1..Len(values.v) |->
                                   [t |-> values.v[i].t,
                                    p |-> Normalized(values.v[i].value, first.value,
                                                     normalize)]]]

-----------------------------------------------------------------------------
(* xquant/backtest/metrics.py.  A price series (pandas.Series with a
   DatetimeIndex) is the list of its [t, p] (date, price) in index order.
   Returns and rates are counted in units of 0.0001, the four decimals the
   code rounds to: Num(400) is 0.04. *)

\* -1, 0 or 1
Sgn(n) == IF n > 0 THEN 1 ELSE IF n < 0 THEN -1 ELSE 0

\* the sign of a number, a float or an infinity
Sign(x) ==
    IF x.k = "num" THEN Sgn(x.v)
    ELSE IF x.k = "-inf" THEN -1
    ELSE IF x.k = "inf" THEN 1
    ELSE x.v

\* n / d cut after the last digit instead of rounded
RoundDiv_truncated(n, d) == IF n >= 0 THEN n \div d ELSE -((-n) \div d)

\* round(n / d), d > 0, half to even
RoundDiv(n, d) ==
    LET q == (2 * n + d) \div (2 * d)
    IN IF (2 * n + d) % (2 * d) = 0 /\ q % 2 = 1 THEN q - 1 ELSE q

RECURSIVE SeqSum(_)
SeqSum(s) == IF s = <<>> THEN 0 ELSE Head(s) + SeqSum(Tail(s))

\* x / y on numpy.float64: a zero divisor gives inf, -inf or NaN (and a
\* RuntimeWarning), not an exception
np_divide(x, y) ==
    IF x.k = "nan" \/ y.k = "nan" THEN NaN
    ELSE IF y.k = "num" /\ y.v = 0
    THEN (IF Sign(x) = 0 THEN NaN ELSE IF Sign(x) > 0 THEN PosInf ELSE NegInf)
    ELSE IF y.k \in {"inf", "-inf"}
    THEN (IF x.k \in {"inf", "-inf"} THEN NaN ELSE Num(0))
    ELSE IF x.k \in {"inf", "-inf"}
    THEN (IF Sign(x) * Sign(y) > 0 THEN PosInf ELSE NegInf)
    ELSE IF Sign(x) = 0 THEN Num(0)
    ELSE Float(Sign(x) * Sign(y))

\* np.mean of a list of numbers: NaN (and a RuntimeWarning) when it is empty
np_mean(values) ==
    IF values = <<>> THEN NaN
    ELSE IF SeqSum(values) = 0 THEN Num(0)
    ELSE Float(Sgn(SeqSum(values)))

\* prices.sort_index(): ascending dates, equal dates in their order
RECURSIVE sort_index(_)
sort_index(series) ==
    IF series = <<>> THEN <<>>
    ELSE LET m == CHOOSE i \in 1..Len(series) :
                     /\ \A j \in 1..Len(series) : series[i].t <= series[j].t
                     /\ \A j \in 1..(i - 1) : series[j].t # series[i].t
         IN <<series[m]>>
              \o sort_index([j \in 1..(Len(series) - 1) |->
                                IF j < m THEN series[j] ELSE series[j + 1]])

\* prices.loc[start_date:end_date] on an ascending index
loc_slice(series, start_date, end_date) ==
    LET Within(x) == start_date <= x.t /\ x.t <= end_date
    IN SelectSeq(series, Within)

\* get_daily_returns(prices): the rounded day-on-day changes, 0 first
get_daily_returns(series) ==
    LET sorted == sort_index(series)
    IN [i \in 1..Len(sorted) |->
           IF i = 1 THEN 0
           ELSE RoundDiv(10000 * (sorted[i].p - sorted[i - 1].p), sorted[i - 1].p)]

\* get_cumulative_return(prices, start_date, end_date)
get_cumulative_return(series, start_date, end_date) ==
    LET w == loc_slice(sort_index(series), start_date, end_date)
    IN IF w = <<>> THEN Raise("IndexError")
       ELSE Num(RoundDiv(10000 * (w[Len(w)].p - w[1].p), w[1].p))

\* the dates of the index are in ascending order
is_monotonic_increasing(series) ==
    \A i \in 1..(Len(series) - 1) : series[i].t <= series[i + 1].t

\* the lowest price of a non-empty list of [t, p]
MinPrice(series) ==
    series[CHOOSE i \in 1..Len(series) :
               \A j \in 1..Len(series) : series[i].p <= series[j].p].p

\* the loop of get_max_drawdown over the first n days of window w: the
\* day [p, lowest] with the largest (p - lowest) / p so far, None while
\* max_drawdown is still the 0 it starts from
RECURSIVE DrawdownScan(_, _)
DrawdownScan(w, n) ==
    IF n = 0 THEN None
    ELSE LET best == DrawdownScan(w, n - 1)
             day_price == w[n].p
             lowest == MinPrice(SubSeq(w, n, Len(w)))
             larger == IF best = None THEN day_price - lowest > 0
                       ELSE (day_price - lowest) * best.p > (best.p - best.lowest) * day_price
         IN IF larger THEN [p |-> day_price, lowest |-> lowest] ELSE best

\* the same loop with lowest taken over the whole window
RECURSIVE DrawdownScan_whole_window(_, _)
DrawdownScan_whole_window(w, n) ==
    IF n = 0 THEN None
    ELSE LET best == DrawdownScan_whole_window(w, n - 1)
             day_price == w[n].p
             lowest == MinPrice(w)
             larger == IF best = None THEN day_price - lowest > 0
                       ELSE (day_price - lowest) * best.p > (best.p - best.lowest) * day_price
         IN IF larger THEN [p |-> day_price, lowest |-> lowest] ELSE best

\* get_max_drawdown measuring each day against the lowest price of the
\* whole window, earlier days included
get_max_drawdown_whole_window(series, start_date, end_date) ==
    LET w == loc_slice(series, start_date, end_date)
    IN IF w = <<>> THEN Raise("IndexError")
       ELSE LET best == DrawdownScan_whole_window(w, Len(w))
            IN IF best = None THEN Num(0)
               ELSE Num(RoundDiv(10000 * (best.p - best.lowest), best.p))

\* get_max_drawdown(prices, start_date, end_date)
get_max_drawdown(series, start_date, end_date) ==
    LET w == loc_slice(series, start_date, end_date)
    IN IF w = <<>> THEN Raise("IndexError")
       ELSE LET best == DrawdownScan(w, Len(w))
            IN IF best = None THEN Num(0)
               ELSE Num(RoundDiv(10000 * (best.p - best.lowest), best.p))

\* get_annualized_return(prices, start_date, end_date, period='d'):
\* round(pow(1 + cum_rtn, 250 / days) - 1, 4), which has the sign of cum_rtn
get_annualized_return(series, start_date, end_date) ==
    LET w == loc_slice(series, start_date, end_date)
    IN IF w = <<>> THEN Raise("IndexError")
       ELSE LET cum_rtn == get_cumulative_return(w, w[1].t, w[Len(w)].t)
                days == w[Len(w)].t - w[1].t
            IN IF IsErr(cum_rtn) THEN cum_rtn
               ELSE IF days = 0 THEN Raise("ZeroDivisionError")
               ELSE IF cum_rtn.v < -10000 THEN NaN
               ELSE IF cum_rtn.v = -10000 THEN Num(-10000)
               ELSE IF cum_rtn.v = 0 THEN Num(0)
               ELSE Float(Sgn(cum_rtn.v))

\* get_strategy_volatility(prices, start_date, end_date):
\* round(np.std(returns) * np.sqrt(250), 4).  The first return is 0, so
\* the standard deviation is 0 exactly when every return is 0.
get_strategy_volatility(series, start_date, end_date) ==
    LET w == loc_slice(series, start_date, end_date)
        prices_chg == get_daily_returns(w)
    IN IF w = <<>> THEN Raise("IndexError")
       ELSE IF \A i \in 1..Len(prices_chg) : prices_chg[i] = 0 THEN Num(0)
       ELSE Float(1)

\* ann_rtn - risk_free.  A float ann_rtn keeps its sign: over the windows
\* drawn here a non-zero annualized return lies beyond [0, 1]
excess_return(ann_rtn, risk_free) ==
    IF ann_rtn.k = "num" THEN Num(ann_rtn.v - risk_free) ELSE ann_rtn

\* get_sharpe_ratio(prices, start_date, end_date, risk_free)
get_sharpe_ratio(series, start_date, end_date, risk_free) ==
    LET w == loc_slice(series, start_date, end_date)
    IN IF ~(0 <= risk_free /\ risk_free <= 10000) THEN Raise("AssertionError")
       ELSE IF w = <<>> THEN Raise("IndexError")
       ELSE LET ann_rtn == get_annualized_return(w, w[1].t, w[Len(w)].t)
                vo == get_strategy_volatility(w, w[1].t, w[Len(w)].t)
            IN IF IsErr(ann_rtn) THEN ann_rtn
               ELSE IF IsErr(vo) THEN vo
               ELSE np_divide(excess_return(ann_rtn, risk_free), vo)

\* get_risk_adjusted_return(prices, start_date, end_date)
get_risk_adjusted_return(series, start_date, end_date) ==
    LET w == loc_slice(series, start_date, end_date)
    IN IF w = <<>> THEN Raise("IndexError")
       ELSE LET ann_rtn == get_annualized_return(w, w[1].t, w[Len(w)].t)
                vo == get_strategy_volatility(w, w[1].t, w[Len(w)].t)
            IN IF IsErr(ann_rtn) THEN ann_rtn
               ELSE IF IsErr(vo) THEN vo
               ELSE np_divide(ann_rtn, vo)

\* np.var(returns, ddof=1): NaN for a single return; 0 exactly when every
\* return is 0 (the first one is)
np_var(returns) ==
    IF Len(returns) < 2 THEN NaN
    ELSE IF \A i \in 1..Len(returns) : returns[i] = 0 THEN Num(0)
    ELSE Float(1)

\* the sign of sum over i < j of (x[i] - x[j]) * (y[i] - y[j]), which is
\* n * (n - 1) times the sample covariance; the sum is taken in two halves
\* of 16 bits to stay within 32-bit integers
CovarianceSign(x, y) ==
    LET n == Len(x)
        terms == [k \in 1..(n * n) |->
                    LET i == ((k - 1) \div n) + 1
                        j == ((k - 1) % n) + 1
                    IN IF i < j THEN (x[i] - x[j]) * (y[i] - y[j]) ELSE 0]
        low == SeqSum([k \in 1..(n * n) |-> terms[k] % 65536])
        high == SeqSum([k \in 1..(n * n) |-> terms[k] \div 65536]) + (low \div 65536)
    IN IF high # 0 THEN Sgn(high) ELSE Sgn(low % 65536)

\* np.cov(x, y)[0][1]: ValueError for lists of different lengths, NaN for
\* single returns, else the sample covariance
np_cov(x, y) ==
    IF Len(x) # Len(y) THEN Raise("ValueError")
    ELSE IF Len(x) < 2 THEN NaN
    ELSE IF CovarianceSign(x, y) = 0 THEN Num(0)
    ELSE Float(CovarianceSign(x, y))

\* get_beta(strategy, benchmark, start_date, end_date)
get_beta(strategy, bench, start_date, end_date) ==
    LET s == loc_slice(strategy, start_date, end_date)
        b == loc_slice(bench, start_date, end_date)
        var == np_var(get_daily_returns(b))
        cov == np_cov(get_daily_returns(s), get_daily_returns(b))
    IN IF s = <<>> THEN Raise("IndexError")
       ELSE IF IsErr(cov) THEN cov
       ELSE np_divide(cov, var)

\* one iteration of the loop of get_pl_ratio, lines 249-259: the lists
\* with this period's profit or loss before those of the later periods,
\* or the first exception
AddProfitOrLoss(start_val, end_val, rest) ==
    IF IsErr(start_val) THEN [k |-> start_val.k, profit |-> <<>>, loss |-> <<>>]
    ELSE IF IsErr(end_val) THEN [k |-> end_val.k, profit |-> <<>>, loss |-> <<>>]
    ELSE IF rest.k # "lists" THEN rest
    ELSE IF start_val.k # "num" \/ end_val.k # "num" THEN rest
    ELSE IF end_val.v > start_val.v
    THEN [rest EXCEPT !.profit = <<end_val.v - start_val.v>> \o @]
    ELSE IF end_val.v < start_val.v
    THEN [rest EXCEPT !.loss = <<start_val.v - end_val.v>> \o @]
    ELSE rest

\* the loop of get_pl_ratio over periods[i..]: the profits and the losses,
\* or the first exception
RECURSIVE ProfitAndLoss(_, _, _)
ProfitAndLoss(periods, df, i) ==
    IF i > Len(periods) THEN [k |-> "lists", profit |-> <<>>, loss |-> <<>>]
    ELSE AddProfitOrLoss(get_net_liquidation(periods[i].portfolio,
                                             <<periods[i].period.start_time, df>>),
                         get_net_liquidation(periods[i].portfolio,
                                             <<periods[i].period.end_time, df>>),
                         ProfitAndLoss(periods, df, i + 1))

\* lines 262-266: np.mean(profit) / np.mean(loss)
PlRatioOf(lists) ==
    IF lists.k # "lists" THEN Raise(lists.k)
    ELSE np_divide(np_mean(lists.profit), np_mean(lists.loss))

\* get_pl_ratio(start_date, end_date, holdings, df_price)
get_pl_ratio(start_date, end_date, self, df) ==
    LET Started(x) == start_date <= x.period.start_time /\ x.period.start_time <= end_date
        within == SelectSeq(self, Started)
        periods == IF within = <<>> THEN <<>> ELSE Tail(within)
    IN PlRatioOf(ProfitAndLoss(periods, df, 1))

\* one iteration of the loop of get_win_rate, lines 207-213: the count
\* with this period's values and the count of the later periods, or the
\* first exception
CountWin(start_val, end_val, rest) ==
    IF IsErr(start_val) THEN start_val
    ELSE IF IsErr(end_val) THEN end_val
    ELSE IF IsErr(rest) THEN rest
    ELSE IF start_val.k = "num" /\ end_val.k = "num" /\ end_val.v > start_val.v
    THEN Num(rest.v + 1)
    ELSE rest

\* the loop of get_win_rate over periods[i..]: the number of winning
\* periods, or the first exception
RECURSIVE WinningPeriods(_, _, _)
WinningPeriods(periods, df, i) ==
    IF i > Len(periods) THEN Num(0)
    ELSE CountWin(get_net_liquidation(periods[i].portfolio,
                                      <<periods[i].period.start_time, df>>),
                  get_net_liquidation(periods[i].portfolio,
                                      <<periods[i].period.end_time, df>>),
                  WinningPeriods(periods, df, i + 1))

\* line 216: winning_periods / n_periods, two ints
WinRateOf(winning_periods, n_periods) ==
    IF IsErr(winning_periods) THEN winning_periods
    ELSE IF n_periods = 0 THEN Raise("ZeroDivisionError")
    ELSE [k |-> "frac", n |-> winning_periods.v, d |-> n_periods]

\* get_win_rate(start_date, end_date, holdings, df_price)
get_win_rate(start_date, end_date, self, df) ==
    LET Started(x) == start_date <= x.period.start_time /\ x.period.start_time <= end_date
        within == SelectSeq(self, Started)
        periods == IF within = <<>> THEN <<>> ELSE Tail(within)
    IN WinRateOf(WinningPeriods(periods, df, 1), Len(periods))

\* sorted(list(holdings.holdings.keys())), each key with its portfolio:
\* ascending by Period.__lt__, equal start times in their order
RECURSIVE sorted_periods(_)
sorted_periods(items) ==
    IF items = <<>> THEN <<>>
    ELSE LET m == CHOOSE i \in 1..Len(items) :
                     /\ \A j \in 1..Len(items) :
                           ~period_lt(items[j].period, items[i].period)
                     /\ \A j \in 1..(i - 1) :
                           period_lt(items[i].period, items[j].period)
         IN <<items[m]>>
              \o sorted_periods([j \in 1..(Len(items) - 1) |->
                                    IF j < m THEN items[j] ELSE items[j + 1]])

\* Counter(a) - Counter(b): the positive differences of the counts
CounterSub(a, b) ==
    LET Diff(t) == a[t] - (IF t \in DOMAIN b THEN b[t] ELSE 0)
    IN [t \in {x \in DOMAIN a : Diff(x) > 0} |-> Diff(t)]

\* Portfolio(long=...): __init__ has no defaults for short and cash
NewPortfolio_long_only(long) == Raise("TypeError")

\* lines 306-309 with the portfolios found before and after the boundary
BoundaryTurnover(pre_portfolio, post_portfolio) ==
    IF pre_portfolio.k # "Portfolio" THEN Raise(pre_portfolio.k)
    ELSE IF post_portfolio.k # "Portfolio" THEN Raise(post_portfolio.k)
    ELSE NewPortfolio_long_only(CounterSub(post_portfolio.v.long, pre_portfolio.v.long))

\* the loop of get_turnover_ratio over rebalance_dates[i..]: twice the
\* aggregate turnover, or the first exception.  Line 308 raises in the
\* first iteration, so the valuations of lines 311-315 are never made.
AggTurnover(self, df, rebalance_dates, i) ==
    IF i > Len(rebalance_dates) THEN Num(0)
    ELSE BoundaryTurnover(get_portfolio(self, rebalance_dates[i]),
                          get_portfolio(self, AddDays(rebalance_dates[i], 1)))

\* lines 317-320: agg_turnover / n_years / ((end_val + start_val) / 2),
\* or the first exception of lines 298-315
TurnoverOf(start_val, end_val, agg_turnover, n_years) ==
    IF IsErr(start_val) THEN start_val
    ELSE IF IsErr(end_val) THEN end_val
    ELSE IF IsErr(agg_turnover) THEN agg_turnover
    ELSE IF n_years = 0 THEN Raise("ZeroDivisionError")
    ELSE IF start_val.k # "num" \/ end_val.k # "num" THEN NaN
    ELSE IF start_val.v + end_val.v = 0 THEN Raise("ZeroDivisionError")
    ELSE [k |-> "frac", n |-> agg_turnover.v,
          d |-> n_years * (start_val.v + end_val.v)]

\* lines 296-320 on the periods of the window, which are not empty
TurnoverOver(self, df, periods, first, last) ==
    TurnoverOf(get_net_liquidation(first.portfolio, <<first.period.start_time, df>>),
               get_net_liquidation(last.portfolio, <<last.period.end_time, df>>),
               AggTurnover(self, df,
                           [i \in 1..(Len(periods) - 1) |-> periods[i].period.end_time],
                           1),
               Ymd(last.period.end_time).y - Ymd(first.period.start_time).y)

\* get_turnover_ratio(start_date, end_date, holdings, df_price)
get_turnover_ratio(start_date, end_date, self, df) ==
    LET Started(x) == start_date <= x.period.start_time /\ x.period.start_time <= end_date
        periods == SelectSeq(sorted_periods(self), Started)
    IN IF periods = <<>> THEN Raise("IndexError")
       ELSE TurnoverOver(self, df, periods, periods[1], periods[Len(periods)])

-----------------------------------------------------------------------------
(* The inputs the model draws from *)

Tickers == {"A", "B"}

\* a cell of the price table: a traded price, or NaN (no trade that day)
Cells == {Num(p) : p \in 1..MaxPrice} \cup {NaN}

\* every price table over the dates 0..MaxPriceDay with the columns Tickers
PriceTables ==
    UNION {{[columns |-> Tickers, index |-> idx, data |-> f] :
                f \in [idx -> [Tickers -> Cells]]} :
           idx \in SUBSET (0..MaxPriceDay)}

\* the price table in which every ticker trades at price p on every date
FlatTable(p) ==
    [columns |-> Tickers, index |-> 0..MaxPriceDay,
     data |-> [d \in 0..MaxPriceDay |-> [s \in Tickers |-> Num(p)]]]

\* the dates run_backtest is started at
StartTimes == {Date(2020, 1, 1), Date(2020, 1, 31), Date(2020, 12, 15), Date(2021, 1, 31)}

\* what the stock-selection callback may return when called with `funds`:
\* the core does not check the portfolio against the funds
Selections(funds) ==
    {NewPortfolio(<<>>, <<>>, funds),
     NewPortfolio("A" :> funds, <<>>, 0),
     NewPortfolio("A" :> 1, "B" :> 1, funds)}

NoResult == [k |-> "none", v |-> None]

NoQuery == [op |-> "none", time |-> 0, nargs |-> 0]

NoArgs == [start_time |-> 0, end_time |-> 0, init_funds |-> 0, rebalance_freq |-> 0]

-----------------------------------------------------------------------------
(* xquant/backtest/backtest.py: run_backtest *)

\* the state after lines 24-26
InitBacktest ==
    /\ args \in {[start_time |-> s, end_time |-> AddDays(s, 7 * w),
                  init_funds |-> fu, rebalance_freq |-> fr] :
                    s \in StartTimes, w \in 0..MaxHorizonWeeks,
                    fu \in 1..MaxFunds, fr \in 1..MaxFreq}
    /\ df_price \in {FlatTable(p) : p \in 1..MaxPrice}
    /\ now = args.start_time
    /\ holdings = NewHoldings
    /\ last_portfolio = None
    /\ pc = "loop"
    /\ calls = <<>>
    /\ selector_failed = FALSE
    /\ portfolio = None
    /\ query = NoQuery
    /\ result = NoResult
    /\ period_obj = None
    /\ prices = <<>>
    /\ benchmark = <<>>

\* the funds argument of the selector call, lines 29-32
FundsArgument ==
    IF now = args.start_time THEN Num(args.init_funds)
    ELSE get_net_liquidation(last_portfolio, <<now, df_price>>)

\* a driver that catches the exception and returns what it has recorded
AbortReturnsPartial(e) ==
    /\ pc' = "returned"
    /\ result' = [k |-> "Holdings", v |-> holdings]

\* the run ends with exception e
Abort(e) ==
    /\ pc' = "raised"
    /\ result' = [k |-> e, v |-> None]

\* lines 34-38 with the period's end clipped to end_time
RecordAndAdvance_clipped(pf) ==
    LET next_rebalance == AddMonths(now, args.rebalance_freq)
        current_period == NewPeriod(now, Num(Min(AddDays(next_rebalance, -1),
                                                 args.end_time)), None)
    IN IF current_period.k # "Period"
       THEN /\ Abort(current_period.k)
            /\ UNCHANGED <<holdings, now, last_portfolio>>
       ELSE /\ holdings' = DictSet(holdings, current_period.p, pf)
            /\ now' = next_rebalance
            /\ last_portfolio' = pf
            /\ UNCHANGED <<pc, result>>

\* lines 34-38 with the selected portfolio pf
RecordAndAdvance(pf) ==
    LET next_rebalance == AddMonths(now, args.rebalance_freq)
        current_period == NewPeriod(now, Num(AddDays(next_rebalance, -1)), None)
    IN IF current_period.k # "Period"
       THEN /\ Abort(current_period.k)
            /\ UNCHANGED <<holdings, now, last_portfolio>>
       ELSE /\ holdings' = DictSet(holdings, current_period.p, pf)
            /\ now' = next_rebalance
            /\ last_portfolio' = pf
            /\ UNCHANGED <<pc, result>>

\* one iteration of the while loop, lines 27-38
Rebalance ==
    /\ pc = "loop"
    /\ now < args.end_time
    /\ LET funds == FundsArgument
       IN IF IsErr(funds)
          THEN /\ Abort(funds.k)
               /\ UNCHANGED <<holdings, now, last_portfolio, calls, selector_failed>>
          ELSE /\ calls' = Append(calls, [funds |-> funds, date |-> now])
               /\ \/ \E pf \in Selections(funds.v) :
                        /\ RecordAndAdvance(pf)
                        /\ UNCHANGED selector_failed
                  \/ /\ selector_failed' = TRUE
                     /\ Abort("SelectorError")
                     /\ UNCHANGED <<holdings, now, last_portfolio>>
    /\ UNCHANGED <<args, df_price, portfolio, query, period_obj, prices, benchmark>>

\* the loop exit and line 40
Return ==
    /\ pc = "loop"
    /\ ~(now < args.end_time)
    /\ pc' = "returned"
    /\ result' = [k |-> "Holdings", v |-> holdings]
    /\ UNCHANGED <<args, df_price, now, holdings, last_portfolio, calls,
                   selector_failed, portfolio, query, period_obj, prices, benchmark>>

NextBacktest == Rebalance \/ Return

Spec == InitBacktest /\ [][NextBacktest]_vars

-----------------------------------------------------------------------------
(* A Holdings of any periods, as Holdings(holdings=...) accepts it, and
   calls of get_portfolio on it *)

\* the periods Period(s, e) constructs over the days 0..MaxDay
Periods ==
    {c.p : c \in {n \in {NewPeriod(s, Num(e), None) : s \in 0..MaxDay, e \in 0..MaxDay} :
                    n.k = "Period"}}

\* two portfolios that differ
SamplePortfolios == {NewPortfolio(<<>>, <<>>, 1), NewPortfolio("A" :> 1, <<>>, 1)}

InitHoldings ==
    /\ args = NoArgs
    /\ df_price = FlatTable(1)
    /\ now = 0
    /\ holdings = NewHoldings
    /\ last_portfolio = None
    /\ pc = "idle"
    /\ calls = <<>>
    /\ selector_failed = FALSE
    /\ portfolio = None
    /\ query = NoQuery
    /\ result = NoResult
    /\ period_obj = None
    /\ prices = <<>>
    /\ benchmark = <<>>

\* holdings.holdings[period] = pf
Record(period, pf) ==
    /\ Len(DictSet(holdings, period, pf)) <= MaxPeriods
    /\ holdings' = DictSet(holdings, period, pf)
    /\ query' = [op |-> "record", time |-> period.start_time, nargs |-> 2]
    /\ result' = NoResult
    /\ UNCHANGED <<args, df_price, now, last_portfolio, pc, calls,
                   selector_failed, portfolio, period_obj, prices, benchmark>>

\* holdings.get_portfolio(time)
GetPortfolio(time) ==
    /\ result' = get_portfolio(holdings, time)
    /\ query' = [op |-> "get_portfolio", time |-> time, nargs |-> 1]
    /\ UNCHANGED <<args, df_price, now, holdings, last_portfolio, pc, calls,
                   selector_failed, portfolio, period_obj, prices, benchmark>>

\* the normalize arguments tried: 100 is the default
NormalizeValues == {1, 100}

\* holdings.generate_performance(df_price, normalize)
GeneratePerformance(normalize) ==
    /\ result' = generate_performance(holdings, df_price, normalize)
    /\ query' = [op |-> "generate_performance", time |-> 0, nargs |-> 2,
                 normalize |-> normalize]
    /\ UNCHANGED <<args, df_price, now, holdings, last_portfolio, pc, calls,
                   selector_failed, portfolio, period_obj, prices, benchmark>>

NextHoldings ==
    \/ \E period \in Periods, pf \in SamplePortfolios : Record(period, pf)
    \/ \E time \in 0..MaxDay : GetPortfolio(time)
    \/ \E normalize \in NormalizeValues : GeneratePerformance(normalize)

SpecHoldings == InitHoldings /\ [][NextHoldings]_vars

-----------------------------------------------------------------------------
(* A Portfolio of any positions and calls of its valuation methods *)

\* position dicts ticker -> shares
LongBooks ==
    {<<>>} \cup {"A" :> n : n \in 1..MaxShares}
           \cup {("A" :> n) @@ ("B" :> 1) : n \in 1..MaxShares}

ShortBooks == {<<>>, "B" :> 1}

Portfolios == {NewPortfolio(l, s, 3) : l \in LongBooks, s \in ShortBooks}

InitPortfolio ==
    /\ args = NoArgs
    /\ df_price \in PriceTables
    /\ now = 0
    /\ holdings = NewHoldings
    /\ last_portfolio = None
    /\ pc = "idle"
    /\ calls = <<>>
    /\ selector_failed = FALSE
    /\ portfolio \in Portfolios
    /\ query = NoQuery
    /\ result = NoResult
    /\ period_obj = None
    /\ prices = <<>>
    /\ benchmark = <<>>

\* portfolio.get_stock_liquidation(date, df_price)
StockLiquidation(date) ==
    /\ result' = get_stock_liquidation(portfolio, <<date, df_price>>)
    /\ query' = [op |-> "get_stock_liquidation", time |-> date, nargs |-> 2]
    /\ UNCHANGED <<args, df_price, now, holdings, last_portfolio, pc, calls,
                   selector_failed, portfolio, period_obj, prices, benchmark>>

\* portfolio.get_net_liquidation(date), as the method is declared, and
\* portfolio.get_net_liquidation(date, df_price), as every caller calls it
NetLiquidation(date, nargs) ==
    /\ result' = get_net_liquidation(portfolio,
                    IF nargs = 1 THEN <<date>> ELSE <<date, df_price>>)
    /\ query' = [op |-> "get_net_liquidation", time |-> date, nargs |-> nargs]
    /\ UNCHANGED <<args, df_price, now, holdings, last_portfolio, pc, calls,
                   selector_failed, portfolio, period_obj, prices, benchmark>>

NextPortfolio ==
    \/ \E date \in 0..(MaxPriceDay + 1) : StockLiquidation(date)
    \/ \E date \in 0..(MaxPriceDay + 1), nargs \in {1, 2} : NetLiquidation(date, nargs)

SpecPortfolio == InitPortfolio /\ [][NextPortfolio]_vars

-----------------------------------------------------------------------------
(* A Portfolio and the transactions of xquant/transaction.py on it.  The
   price table carries a number, 0 or more, for every ticker on every date
   it lists; the date MaxPriceDay + 1 is not listed. *)

InitTransaction ==
    /\ args = NoArgs
    /\ df_price \in {FlatTable(p) : p \in 0..MaxPrice}
    /\ now = 0
    /\ holdings = NewHoldings
    /\ last_portfolio = None
    /\ pc = "idle"
    /\ calls = <<>>
    /\ selector_failed = FALSE
    /\ portfolio \in Portfolios
    /\ query = NoQuery
    /\ result = NoResult
    /\ period_obj = None
    /\ prices = <<>>
    /\ benchmark = <<>>

\* the record of the call `op(portfolio, df_price, ticker, shares, date)`
TradeQuery(op, ticker, shares, date) ==
    [op |-> op, time |-> date, nargs |-> 5, ticker |-> ticker, shares |-> shares]

Buy(ticker, shares, date) ==
    LET out == buy(portfolio, df_price, ticker, shares, date)
    IN /\ portfolio' = out.pf
       /\ result' = out.r
       /\ query' = TradeQuery("buy", ticker, shares, date)
       /\ UNCHANGED <<args, df_price, now, holdings, last_portfolio, pc, calls,
                      selector_failed, period_obj, prices, benchmark>>

Sell(ticker, shares, date) ==
    LET out == sell(portfolio, df_price, ticker, shares, date)
    IN /\ portfolio' = out.pf
       /\ result' = out.r
       /\ query' = TradeQuery("sell", ticker, shares, date)
       /\ UNCHANGED <<args, df_price, now, holdings, last_portfolio, pc, calls,
                      selector_failed, period_obj, prices, benchmark>>

Short(ticker, shares, date) ==
    LET out == short(portfolio, df_price, ticker, shares, date)
    IN /\ portfolio' = out.pf
       /\ result' = out.r
       /\ query' = TradeQuery("short", ticker, shares, date)
       /\ UNCHANGED <<args, df_price, now, holdings, last_portfolio, pc, calls,
                      selector_failed, period_obj, prices, benchmark>>

NextTransaction ==
    \E ticker \in Tickers, shares \in 1..MaxShares, date \in 0..(MaxPriceDay + 1) :
        \/ Buy(ticker, shares, date)
        \/ Sell(ticker, shares, date)
        \/ Short(ticker, shares, date)

SpecTransaction == InitTransaction /\ [][NextTransaction]_vars

-----------------------------------------------------------------------------
(* Period objects: construction, contains_time and the comparisons *)

\* the optional arguments of Period(start_time, end_time, duration): None,
\* or a day for end_time, or a number of days (negative and zero too) for
\* duration
EndTimes == {None} \cup {Num(e) : e \in 0..MaxDay}

Durations == {None} \cup {Num(d) : d \in (-1)..MaxDay}

InitPeriod ==
    /\ args = NoArgs
    /\ df_price = FlatTable(1)
    /\ now = 0
    /\ holdings = NewHoldings
    /\ last_portfolio = None
    /\ pc = "idle"
    /\ calls = <<>>
    /\ selector_failed = FALSE
    /\ portfolio = None
    /\ query = NoQuery
    /\ result = NoResult
    /\ period_obj = None
    /\ prices = <<>>
    /\ benchmark = <<>>

\* period_obj = Period(start_time, end_time, duration): the name is bound
\* only when the constructor returns
Construct(start_time, end_time, duration) ==
    LET made == NewPeriod(start_time, end_time, duration)
    IN /\ result' = made
       /\ period_obj' = IF made.k = "Period" THEN made.p ELSE period_obj
       /\ query' = [op |-> "Period", time |-> start_time, nargs |-> 3,
                    end_time |-> end_time, duration |-> duration]
       /\ UNCHANGED <<args, df_price, now, holdings, last_portfolio, pc, calls,
                      selector_failed, portfolio, prices, benchmark>>

\* period_obj.contains_time(time)
ContainsTime(time) ==
    /\ period_obj # None
    /\ result' = contains_time(period_obj, time)
    /\ query' = [op |-> "contains_time", time |-> time, nargs |-> 1]
    /\ UNCHANGED <<args, df_price, now, holdings, last_portfolio, pc, calls,
                   selector_failed, portfolio, period_obj, prices, benchmark>>

\* period_obj < o, period_obj == o, period_obj > o, period_obj != o and
\* hash(period_obj) == hash(o)
Compare(o) ==
    /\ period_obj # None
    /\ result' = [k |-> "comparison", p |-> None,
                  lt |-> period_lt(period_obj, o),
                  eq |-> PeriodEq(period_obj, o),
                  gt |-> period_gt(period_obj, o),
                  ne |-> period_ne(period_obj, o),
                  same_hash |-> period_hash(period_obj) = period_hash(o)]
    /\ query' = [op |-> "compare", time |-> 0, nargs |-> 1, o |-> o]
    /\ UNCHANGED <<args, df_price, now, holdings, last_portfolio, pc, calls,
                   selector_failed, portfolio, period_obj, prices, benchmark>>

NextPeriod ==
    \/ \E start_time \in 0..MaxDay, end_time \in EndTimes, duration \in Durations :
          Construct(start_time, end_time, duration)
    \/ \E time \in 0..(2 * MaxDay) : ContainsTime(time)
    \/ \E o \in Periods : Compare(o)

SpecPeriod == InitPeriod /\ [][NextPeriod]_vars

-----------------------------------------------------------------------------
(* Calls of the metrics of xquant/backtest/metrics.py: each behaviour draws
   the inputs and makes one call *)

\* the price series over the days 0..n-1, n in 1..MaxSeriesLen, with
\* prices in 1..MaxPrice
PriceSeries(n) ==
    {[i \in 1..n |-> [t |-> i - 1, p |-> f[i]]] : f \in [1..n -> 1..MaxPrice]}

\* the series over the days 0..n-1 in any index order, with prices in
\* 1..MaxQuote: a pandas.Series need not be sorted by date
ShuffledSeries(n) ==
    {[i \in 1..n |-> [t |-> order[i] - 1, p |-> f[i]]] :
        order \in Permutations(1..n), f \in [1..n -> 1..MaxQuote]}

\* the series in which the price is p on each of the days 0..n-1
FlatSeries(n, p) == [i \in 1..n |-> [t |-> i - 1, p |-> p]]

\* the Holdings of n consecutive two-day periods from day 0 on
RECURSIVE ChainHoldings(_)
ChainHoldings(n) ==
    IF n = 0 THEN {NewHoldings}
    ELSE {DictSet(h, NewPeriod(2 * (n - 1), Num(2 * n - 1), None).p, pf) :
            h \in ChainHoldings(n - 1), pf \in SamplePortfolios}

\* the risk_free arguments tried: 0 and the default 0.04
RiskFreeRates == {0, 400}

\* a call is given two series over the same days, or one series in any
\* index order, or a Holdings
InitMetrics ==
    /\ args = NoArgs
    /\ df_price = FlatTable(1)
    /\ now = 0
    /\ last_portfolio = None
    /\ pc = "idle"
    /\ calls = <<>>
    /\ selector_failed = FALSE
    /\ portfolio = None
    /\ query = NoQuery
    /\ result = NoResult
    /\ period_obj = None
    /\ \/ /\ \E n \in 1..MaxSeriesLen :
                /\ prices \in PriceSeries(n)
                /\ benchmark \in PriceSeries(n)
          /\ holdings = NewHoldings
       \/ /\ \E n \in 1..MaxSeriesLen :
                /\ prices \in ShuffledSeries(n)
                /\ benchmark = FlatSeries(n, 1)
          /\ holdings = NewHoldings
       \/ /\ prices = FlatSeries(MaxSeriesLen, 1)
          /\ benchmark = FlatSeries(MaxSeriesLen, 1)
          /\ holdings \in UNION {ChainHoldings(n) : n \in 1..MaxPeriods}

\* the call takes no benchmark series: the variable holds the flat one
NoBenchmark == benchmark = FlatSeries(Len(prices), 1)

\* the call has returned or raised
Called(op, start_date, end_date, risk_free, out) ==
    /\ result' = out
    /\ pc' = IF IsErr(out) THEN "raised" ELSE "returned"
    /\ query' = [op |-> op, time |-> start_date, nargs |-> 0,
                 end_date |-> end_date, risk_free |-> risk_free]

\* get_daily_returns(prices): line 12 sorts the caller's series
DailyReturns ==
    /\ pc = "idle"
    /\ NoBenchmark
    /\ Called("get_daily_returns", 0, 0, 0,
              [k |-> "Series", v |-> get_daily_returns(prices)])
    /\ prices' = sort_index(prices)
    /\ UNCHANGED <<args, df_price, now, holdings, last_portfolio, calls,
                   selector_failed, portfolio, period_obj, benchmark>>

\* get_cumulative_return(prices, start_date, end_date): line 28 sorts the
\* caller's series before line 29 rebinds the name to the slice
CumulativeReturn(start_date, end_date) ==
    /\ pc = "idle"
    /\ NoBenchmark
    /\ Called("get_cumulative_return", start_date, end_date, 0,
              get_cumulative_return(prices, start_date, end_date))
    /\ prices' = sort_index(prices)
    /\ UNCHANGED <<args, df_price, now, holdings, last_portfolio, calls,
                   selector_failed, portfolio, period_obj, benchmark>>

\* get_max_drawdown(prices, start_date, end_date), the series in date order
MaxDrawdown(start_date, end_date) ==
    /\ pc = "idle"
    /\ NoBenchmark
    /\ is_monotonic_increasing(prices)
    /\ Called("get_max_drawdown", start_date, end_date, 0,
              get_max_drawdown(prices, start_date, end_date))
    /\ UNCHANGED <<args, df_price, now, holdings, last_portfolio, calls,
                   selector_failed, portfolio, period_obj, prices, benchmark>>

\* get_sharpe_ratio(prices, start_date, end_date, risk_free), the series in
\* date order (as for the next two)
SharpeRatio(start_date, end_date, risk_free) ==
    /\ pc = "idle"
    /\ NoBenchmark
    /\ is_monotonic_increasing(prices)
    /\ Called("get_sharpe_ratio", start_date, end_date, risk_free,
              get_sharpe_ratio(prices, start_date, end_date, risk_free))
    /\ UNCHANGED <<args, df_price, now, holdings, last_portfolio, calls,
                   selector_failed, portfolio, period_obj, prices, benchmark>>

\* get_risk_adjusted_return(prices, start_date, end_date)
RiskAdjustedReturn(start_date, end_date) ==
    /\ pc = "idle"
    /\ NoBenchmark
    /\ is_monotonic_increasing(prices)
    /\ Called("get_risk_adjusted_return", start_date, end_date, 0,
              get_risk_adjusted_return(prices, start_date, end_date))
    /\ UNCHANGED <<args, df_price, now, holdings, last_portfolio, calls,
                   selector_failed, portfolio, period_obj, prices, benchmark>>

\* get_beta(prices, benchmark, start_date, end_date)
Beta(start_date, end_date) ==
    /\ pc = "idle"
    /\ is_monotonic_increasing(prices)
    /\ Called("get_beta", start_date, end_date, 0,
              get_beta(prices, benchmark, start_date, end_date))
    /\ UNCHANGED <<args, df_price, now, holdings, last_portfolio, calls,
                   selector_failed, portfolio, period_obj, prices, benchmark>>

\* get_pl_ratio(start_date, end_date, holdings, df_price)
PlRatio(start_date, end_date) ==
    /\ pc = "idle"
    /\ NoBenchmark
    /\ Called("get_pl_ratio", start_date, end_date, 0,
              get_pl_ratio(start_date, end_date, holdings, df_price))
    /\ UNCHANGED <<args, df_price, now, holdings, last_portfolio, calls,
                   selector_failed, portfolio, period_obj, prices, benchmark>>

\* get_win_rate(start_date, end_date, holdings, df_price), the Holdings
\* with a recorded period or more
WinRate(start_date, end_date) ==
    /\ pc = "idle"
    /\ NoBenchmark
    /\ holdings # NewHoldings
    /\ Called("get_win_rate", start_date, end_date, 0,
              get_win_rate(start_date, end_date, holdings, df_price))
    /\ UNCHANGED <<args, df_price, now, holdings, last_portfolio, calls,
                   selector_failed, portfolio, period_obj, prices, benchmark>>

\* get_turnover_ratio(start_date, end_date, holdings, df_price), the
\* Holdings with a recorded period or more
TurnoverRatio(start_date, end_date) ==
    /\ pc = "idle"
    /\ NoBenchmark
    /\ holdings # NewHoldings
    /\ Called("get_turnover_ratio", start_date, end_date, 0,
              get_turnover_ratio(start_date, end_date, holdings, df_price))
    /\ UNCHANGED <<args, df_price, now, holdings, last_portfolio, calls,
                   selector_failed, portfolio, period_obj, prices, benchmark>>

NextMetrics ==
    \/ DailyReturns
    \/ \E start_date \in 0..(MaxSeriesLen - 1), end_date \in 0..(MaxSeriesLen - 1) :
        \/ CumulativeReturn(start_date, end_date)
        \/ MaxDrawdown(start_date, end_date)
        \/ \E risk_free \in RiskFreeRates : SharpeRatio(start_date, end_date, risk_free)
        \/ RiskAdjustedReturn(start_date, end_date)
        \/ Beta(start_date, end_date)
        \/ PlRatio(start_date, end_date)
        \/ WinRate(start_date, end_date)
        \/ TurnoverRatio(start_date, end_date)

SpecMetrics == InitMetrics /\ [][NextMetrics]_vars

-----------------------------------------------------------------------------
(* Claims about run_backtest, checked under Spec *)

\* the run has ended and the selector never failed
RunEndedSelectorOk == pc # "loop" /\ ~selector_failed

\* day t lies in recorded period i (inclusive at both ends)
InPeriod(i, t) ==
    holdings[i].period.start_time <= t /\ t <= holdings[i].period.end_time

\* C1: in the Holdings run_backtest builds, every iteration records its
\* portfolio under Period(now, now + rebalance_freq months - 1 day), the
\* next recorded period starts at now + rebalance_freq months, one day
\* after the previous period's end, and no day lies in two recorded periods.
C1_PeriodsAreConsecutive ==
    RunEndedSelectorOk =>
        /\ \A i \in 1..Len(holdings) :
              LET b == holdings[i].period.start_time
                  nxt == AddMonths(b, args.rebalance_freq)
              IN /\ holdings[i].period.end_time = nxt - 1
                 /\ nxt < args.end_time =>
                       /\ i < Len(holdings)
                       /\ holdings[i + 1].period.start_time = nxt
                       /\ holdings[i + 1].period.start_time
                             = holdings[i].period.end_time + 1
        /\ \A i, j \in 1..Len(holdings) :
              i # j => ~ \E t \in holdings[i].period.start_time ..
                                   holdings[i].period.end_time : InPeriod(j, t)

\* the value the specification gives a position at `date`: the price at
\* `date`, or the most recent valid price strictly before it
RefPrice(df, date, stock) ==
    LET valid == {d \in df.index : d <= date /\ stock \in df.columns
                                     /\ df.data[d][stock].k = "num"}
    IN IF valid = {} THEN Raise("MissingPriceHistory")
       ELSE df.data[CHOOSE d \in valid : \A e \in valid : e <= d][stock]

RECURSIVE RefPositions(_, _, _, _)
RefPositions(df, date, positions, todo) ==
    IF todo = {} THEN 0
    ELSE LET stock == CHOOSE x \in todo : TRUE
         IN RefPrice(df, date, stock).v * positions[stock]
              + RefPositions(df, date, positions, todo \ {stock})

\* every held ticker has a valid price at or before `date`
HasHistory(pf, df, date) ==
    \A stock \in (DOMAIN pf.long) \cup (DOMAIN pf.short) :
        RefPrice(df, date, stock).k = "num"

\* the net liquidation of the specification: longs - shorts + cash
RefNetLiquidation(pf, df, date) ==
    RefPositions(df, date, pf.long, DOMAIN pf.long)
      - RefPositions(df, date, pf.short, DOMAIN pf.short) + pf.cash

\* C2: the selector is called with funds = init_funds on the first
\* iteration and, on every later iteration, with the net liquidation at
\* the new rebalance date of the portfolio selected in the iteration before.
C2_FundsOfEveryCall ==
    RunEndedSelectorOk =>
        /\ Len(calls) >= 1 => calls[1].funds = Num(args.init_funds)
        /\ \A i \in 1..Len(holdings) :
              LET nxt == holdings[i].period.end_time + 1
              IN nxt < args.end_time =>
                    /\ Len(calls) > i
                    /\ calls[i + 1].date = nxt
                    /\ calls[i + 1].funds
                          = Num(RefNetLiquidation(holdings[i].portfolio, df_price, nxt))

\* C3: with start_time < end_time and a selector that always returns,
\* run_backtest terminates by returning a Holdings, at the first rebalance
\* boundary with now >= end_time.
C3_RunReturns ==
    (args.start_time < args.end_time /\ ~selector_failed) =>
        /\ pc \in {"loop", "returned"}
        /\ pc = "returned" =>
              /\ now >= args.end_time
              /\ result.k = "Holdings"
              /\ holdings[Len(holdings)].period.start_time < args.end_time

\* the number of boundaries start, start + f, start + 2f, ... before end
RECURSIVE BoundariesBefore(_, _, _, _)
BoundariesBefore(start, end, f, k) ==
    IF AddMonths(start, k * f) < end
    THEN 1 + BoundariesBefore(start, end, f, k + 1) ELSE 0

\* C4: with a selector that always succeeds, the returned Holdings records
\* as many periods as there are rebalance boundaries strictly before
\* end_time, which is also the number of selector invocations.
C4_PeriodCount ==
    RunEndedSelectorOk =>
        /\ pc = "returned"
        /\ Len(result.v)
              = BoundariesBefore(args.start_time, args.end_time, args.rebalance_freq, 0)
        /\ Len(calls) = Len(result.v)

\* C5: when the selector fails, the run ends in an error and no Holdings,
\* partial or not, is returned.
C5_SelectorFailureAborts ==
    selector_failed =>
        /\ pc = "raised"
        /\ result.k \notin {"Holdings", "none"}

\* C5's case: the selector has failed and the run is over
C5_Witness ==
    /\ selector_failed
    /\ pc = "raised"
    /\ Len(calls) = 1
    /\ holdings = NewHoldings

\* C26: in the Holdings run_backtest returns every recorded period starts
\* at or after start_time and before end_time, every period but the last
\* ends before end_time, and the last period ends on the day before the
\* final rebalance boundary, which is end_time - 1 day or later: the end is
\* not clipped to end_time.
C26_RecordedPeriodBounds ==
    pc = "returned" =>
        /\ \A i \in 1..Len(holdings) :
              /\ args.start_time <= holdings[i].period.start_time
              /\ holdings[i].period.start_time < args.end_time
        /\ \A i \in 1..(Len(holdings) - 1) :
              holdings[i].period.end_time < args.end_time
        /\ holdings # <<>> =>
              LET last == holdings[Len(holdings)].period
              IN /\ last.end_time
                      = AddDays(AddMonths(last.start_time, args.rebalance_freq), -1)
                 /\ last.end_time >= AddDays(args.end_time, -1)

\* a returned run whose last period ends after end_time
C26_Witness ==
    /\ pc = "returned"
    /\ holdings # <<>>
    /\ holdings[Len(holdings)].period.end_time > args.end_time

\* C27: in the Holdings run_backtest returns every day from the first
\* period's start to the last period's end lies in exactly one recorded
\* period, so get_portfolio finds a portfolio on every day that
\* generate_performance visits.
C27_EveryDayInOnePeriod ==
    (pc = "returned" /\ holdings # <<>>) =>
        \A day \in FirstStart(holdings)..LastEnd(holdings) :
            /\ Cardinality({i \in 1..Len(holdings) :
                               contains_time(holdings[i].period, day) = Num(1)}) = 1
            /\ get_portfolio(holdings, day).k = "Portfolio"

\* a returned run with a recorded period of more than one day
C27_Witness ==
    /\ pc = "returned"
    /\ result.k = "Holdings"
    /\ holdings # <<>>
    /\ FirstStart(holdings) < LastEnd(holdings)

-----------------------------------------------------------------------------
(* Claims about Holdings.get_portfolio, checked under SpecHoldings *)

\* C6: get_portfolio(time) returns the portfolio of the first period, in
\* recording order, whose inclusive range contains time (the only one,
\* when exactly one contains it).
C6_FirstContainingPeriodWins ==
    query.op = "get_portfolio" =>
        \A i \in 1..Len(holdings) :
            (InPeriod(i, query.time) /\ \A j \in 1..(i - 1) : ~InPeriod(j, query.time))
                => (result.k = "Portfolio" /\ result.v = holdings[i].portfolio)

\* C6's case: two recorded periods with different portfolios contain the
\* time asked for, and a portfolio was returned
C6_Witness ==
    /\ query.op = "get_portfolio"
    /\ Len(holdings) = 2
    /\ InPeriod(1, query.time) /\ InPeriod(2, query.time)
    /\ holdings[1].portfolio # holdings[2].portfolio
    /\ result.k = "Portfolio"

\* C7: get_portfolio(time) ends in a lookup error, and returns no
\* portfolio, whenever no recorded period contains time: before the first
\* start, after the last end, inside a gap, or on an empty Holdings.
C7_LookupErrorOutsidePeriods ==
    (query.op = "get_portfolio" /\ \A i \in 1..Len(holdings) : ~InPeriod(i, query.time))
        => result.k = "Exception"

\* C7's case: the time asked for lies in the gap between two recorded
\* periods, and the lookup raised
C7_Witness ==
    /\ query.op = "get_portfolio"
    /\ Len(holdings) = 2
    /\ holdings[1].period.end_time < query.time
    /\ query.time < holdings[2].period.start_time
    /\ result.k = "Exception"

-----------------------------------------------------------------------------
(* Claims about Portfolio valuation, checked under SpecPortfolio *)

\* every held ticker has a traded price on `date` itself
PricedOn(pf, df, date) ==
    \A stock \in (DOMAIN pf.long) \cup (DOMAIN pf.short) :
        date \in df.index /\ stock \in df.columns /\ df.data[date][stock].k = "num"

\* C8: net liquidation at a date is the sum over long positions of
\* shares x price, minus the sum over short positions of shares x price,
\* plus cash.
C8_NetLiquidationIsValuePlusCash ==
    (query.op = "get_net_liquidation" /\ portfolio.long # <<>>
        /\ PricedOn(portfolio, df_price, query.time))
        => result = Num(RefNetLiquidation(portfolio, df_price, query.time))

\* C9: when some held ticker has no price at `date`, it is valued at its
\* most recent valid price strictly before `date`, and the tickers with a
\* price at `date` are valued at that price.
C9_StalePriceSubstituted ==
    (query.op = "get_stock_liquidation" /\ portfolio.long # <<>>
        /\ ~PricedOn(portfolio, df_price, query.time)
        /\ HasHistory(portfolio, df_price, query.time))
        => result = Num(RefPositions(df_price, query.time, portfolio.long,
                                     DOMAIN portfolio.long)
                        - RefPositions(df_price, query.time, portfolio.short,
                                       DOMAIN portfolio.short))

-----------------------------------------------------------------------------
(* Claims about buy, sell and short, checked under SpecTransaction *)

\* the price the transaction of the step is made at
TradePrice == at(df_price, query'.time, query'.ticker)

\* the shares of `ticker` in the position dict `book` (0 when absent)
Held(book, ticker) == IF ticker \in DOMAIN book THEN book[ticker] ELSE 0

\* C11: a buy at a priced date with cash >= price * shares succeeds, takes
\* price * shares from cash and adds shares to the ticker's long position
\* (created if absent); with cash < price * shares it fails with the
\* insufficient-funds exception.
C11_BuyFillsOrFails ==
    [][query'.op = "buy" /\ TradePrice.k = "num" =>
          LET total_value == TradePrice.v * query'.shares
          IN IF portfolio.cash >= total_value
             THEN /\ result'.k = "Portfolio"
                  /\ portfolio'.cash = portfolio.cash - total_value
                  /\ query'.ticker \in DOMAIN portfolio'.long
                  /\ Held(portfolio'.long, query'.ticker)
                        = Held(portfolio.long, query'.ticker) + query'.shares
             ELSE result'.k = "Exception"]_vars

\* C12: a sell at a priced date of shares the portfolio holds long succeeds,
\* takes shares from the long position and adds price * shares to cash; a
\* sell of a ticker not held long, or of more than is held, fails with the
\* insufficient-position exception.
C12_SellFillsOrFails ==
    [][query'.op = "sell" /\ TradePrice.k = "num" =>
          IF Held(portfolio.long, query'.ticker) >= query'.shares
          THEN /\ result'.k = "Portfolio"
               /\ Held(portfolio'.long, query'.ticker)
                     = Held(portfolio.long, query'.ticker) - query'.shares
               /\ portfolio'.cash = portfolio.cash + TradePrice.v * query'.shares
          ELSE result'.k = "Exception"]_vars

\* C13: a short at a priced date always succeeds: it adds shares to the
\* ticker's short position (created if absent), adds price * shares to
\* cash and leaves the long positions as they were.
C13_ShortAlwaysFills ==
    [][query'.op = "short" /\ TradePrice.k = "num" =>
          /\ result'.k = "Portfolio"
          /\ query'.ticker \in DOMAIN portfolio'.short
          /\ Held(portfolio'.short, query'.ticker)
                = Held(portfolio.short, query'.ticker) + query'.shares
          /\ portfolio'.cash = portfolio.cash + TradePrice.v * query'.shares
          /\ portfolio'.long = portfolio.long]_vars

\* the step is a call of buy, sell or short
TradeStep == query'.op \in {"buy", "sell", "short"} /\ portfolio' # None

\* C28: whenever buy, sell or short ends in an error, the portfolio's cash,
\* long and short positions are what they were before the call.
C28_FailedTradeChangesNothing ==
    [][(TradeStep /\ result'.k # "Portfolio") => portfolio' = portfolio]_vars

\* the conditions under which C11, C12 and C13 have the trade succeed
TradeCanFill ==
    /\ TradePrice.k = "num"
    /\ query'.op = "buy" => portfolio.cash >= TradePrice.v * query'.shares
    /\ query'.op = "sell" => Held(portfolio.long, query'.ticker) >= query'.shares

C30_NothingGoesNegative ==
    /\ portfolio.cash >= 0
    /\ \A t \in DOMAIN portfolio.long : portfolio.long[t] >= 0
    /\ \A t \in DOMAIN portfolio.short : portfolio.short[t] >= 0

\* a buy has taken the last of the cash
C30_Witness ==
    /\ query.op = "buy"
    /\ at(df_price, query.time, query.ticker).k = "num"
    /\ at(df_price, query.time, query.ticker).v > 0
    /\ result.k \notin {"Exception", "KeyError"}
    /\ portfolio.cash = 0

-----------------------------------------------------------------------------
(* Claims about Holdings.generate_performance, checked under SpecHoldings *)

\* the days from the earliest start_time to the latest end_time
PerformanceDays == FirstStart(holdings)..LastEnd(holdings)

\* generate_performance was called on a Holdings whose periods cover every
\* day from the earliest start_time to the latest end_time
PerformanceAsked ==
    /\ query.op = "generate_performance"
    /\ holdings # <<>>
    /\ \A day \in PerformanceDays : get_portfolio(holdings, day).k = "Portfolio"

\* the net liquidation, on `day`, of the portfolio whose period contains it
DayNetLiquidation(day) ==
    RefNetLiquidation(get_portfolio(holdings, day).v, df_price, day)

\* C14: generate_performance yields exactly one value per calendar day from
\* the earliest start_time to the latest end_time of the recorded periods,
\* both included, each proportional to that day's net liquidation of the
\* portfolio whose period contains the day.
C14_OneValuePerDay ==
    PerformanceAsked =>
        /\ result.k = "Series"
        /\ Len(result.v) = LastEnd(holdings) - FirstStart(holdings) + 1
        /\ \A i \in 1..Len(result.v) :
              /\ result.v[i].t = FirstStart(holdings) + i - 1
              /\ result.v[i].p.k = "frac"
        /\ \A i, j \in 1..Len(result.v) :
              result.v[i].p.n * DayNetLiquidation(result.v[j].t)
                  = result.v[j].p.n * DayNetLiquidation(result.v[i].t)

-----------------------------------------------------------------------------
(* Claims about Period, checked under SpecPeriod *)

\* C16: every successfully constructed Period has end_time > start_time and
\* duration = end_time - start_time, and carries the start_time it was given
\* and the end_time or the duration it was given.
C16_PeriodInvariant ==
    /\ period_obj # None =>
          /\ period_obj.end_time > period_obj.start_time
          /\ period_obj.duration = period_obj.end_time - period_obj.start_time
    /\ (query.op = "Period" /\ result.k = "Period") =>
          /\ result.p = period_obj
          /\ result.p.start_time = query.time
          /\ query.end_time # None => result.p.end_time = query.end_time.v
          /\ query.duration # None => result.p.duration = query.duration.v

\* a Period built from (start_time, duration) has just been constructed
C16_Witness ==
    /\ query.op = "Period"
    /\ result.k = "Period"
    /\ query.end_time = None
    /\ result.p.end_time = query.time + query.duration.v

\* the arguments of the construction of this step imply no positive
\* duration, or give both end_time and duration, or neither
BadPeriodArguments ==
    LET end_time == query'.end_time
        duration == query'.duration
    IN \/ end_time # None /\ duration # None
       \/ end_time = None /\ duration = None
       \/ end_time # None /\ end_time.v <= query'.time
       \/ end_time = None /\ duration # None /\ duration.v <= 0

\* C17: the construction of a Period fails, and creates no Period, when the
\* implied duration is zero or negative, when both end_time and duration are
\* supplied, and when neither is supplied.
C17_BadArgumentsFail ==
    [][(query'.op = "Period" /\ BadPeriodArguments) =>
          /\ result'.k \in {"AssertionError", "AttributeError"}
          /\ result'.p = None
          /\ period_obj' = period_obj]_vars

\* a construction with both end_time and duration, which agree, has failed
C17_Witness ==
    /\ query.op = "Period"
    /\ query.end_time # None
    /\ query.duration # None
    /\ query.duration.v > 0
    /\ query.end_time.v = query.time + query.duration.v
    /\ result.k = "AssertionError"

\* C18: contains_time(t) is true exactly when start_time <= t <= end_time:
\* true at start_time and at end_time, false before and after; the Period
\* from January 1 to January 31 contains January 15 and not February 1.
C18_ContainsTimeInclusive ==
    /\ query.op = "contains_time" =>
          /\ result \in {Num(0), Num(1)}
          /\ result = Num(1) <=>
                (period_obj.start_time <= query.time /\ query.time <= period_obj.end_time)
    /\ LET january == NewPeriod(Date(2020, 1, 1), Num(Date(2020, 1, 31)), None).p
       IN /\ contains_time(january, Date(2020, 1, 15)) = Num(1)
          /\ contains_time(january, Date(2020, 2, 1)) = Num(0)

\* contains_time was asked of a Period's own end_time
C18_Witness ==
    /\ query.op = "contains_time"
    /\ query.time = period_obj.end_time
    /\ result = Num(1)

\* how many of a < b, a == b, a > b the last comparison found true
TrueComparisons ==
    (IF result.lt THEN 1 ELSE 0) + (IF result.eq THEN 1 ELSE 0)
        + (IF result.gt THEN 1 ELSE 0)

\* C19 as stated: for any two Periods a and b exactly one of a < b, a == b,
\* a > b holds.
C19_Trichotomy == query.op = "compare" => TrueComparisons = 1

\* C19 as amended: a < b and a > b are by start_time, a == b and the hash
\* are by the (start_time, end_time) pair; at most one of a < b, a == b,
\* a > b holds, and none of them holds exactly when a and b start together
\* and end apart.
C19_OrderByStartEqualityByPair ==
    query.op = "compare" =>
        /\ result.lt <=> period_obj.start_time < query.o.start_time
        /\ result.gt <=> period_obj.start_time > query.o.start_time
        /\ result.eq <=> (period_obj.start_time = query.o.start_time
                            /\ period_obj.end_time = query.o.end_time)
        /\ result.ne <=> ~result.eq
        /\ result.eq => result.same_hash
        /\ TrueComparisons <= 1
        /\ TrueComparisons = 0 <=>
              (period_obj.start_time = query.o.start_time
                 /\ period_obj.end_time # query.o.end_time)

\* two Periods that start together and end apart have been compared
C19_Witness ==
    /\ query.op = "compare"
    /\ period_obj.start_time = query.o.start_time
    /\ period_obj.end_time # query.o.end_time
    /\ TrueComparisons = 0

-----------------------------------------------------------------------------
(* Claims about the metrics, checked under SpecMetrics *)

\* the part of a series between the start_date and the end_date of the call
Window(series) ==
    LET Within(x) == query.time <= x.t /\ x.t <= query.end_date
    IN SelectSeq(series, Within)

\* the window holds prices, all of them the same: no return differs from 0
Constant(series) ==
    /\ Window(series) # <<>>
    /\ \A i \in 1..Len(Window(series)) : Window(series)[i].p = Window(series)[1].p

\* no recorded period is worth less at its end than at its start
NoLosingPeriod ==
    \A i \in 1..Len(holdings) :
        RefNetLiquidation(holdings[i].portfolio, df_price, holdings[i].period.end_time)
            >= RefNetLiquidation(holdings[i].portfolio, df_price,
                                 holdings[i].period.start_time)

\* C20: a metric whose denominator is degenerate ends in an error and never
\* returns infinity or NaN: sharpe_ratio and risk_adjusted_return on zero
\* volatility, pl_ratio without a losing period, beta on zero benchmark
\* variance.
C20_DegenerateDenominatorRaises ==
    /\ query.op \in {"get_sharpe_ratio", "get_risk_adjusted_return", "get_beta",
                     "get_pl_ratio"}
          => result.k \notin {"inf", "-inf", "nan"}
    /\ (query.op \in {"get_sharpe_ratio", "get_risk_adjusted_return"}
          /\ Constant(prices)) => IsErr(result)
    /\ (query.op = "get_beta" /\ Constant(benchmark)) => IsErr(result)
    /\ (query.op = "get_pl_ratio" /\ NoLosingPeriod) => IsErr(result)


\* C21: no metrics function modifies its inputs: over every call the
\* caller's price series (values and index order) and Holdings stay what
\* they were, also when the series is not sorted by date.
C21_MetricsLeaveInputsAlone ==
    [][prices' = prices /\ benchmark' = benchmark /\ holdings' = holdings]_vars

\* the i-th [t, p] of a series taken in ascending date order (dates differ)
InDateOrder(series, i) ==
    CHOOSE x \in {series[j] : j \in 1..Len(series)} :
        Cardinality({j \in 1..Len(series) : series[j].t < x.t}) = i - 1

\* r / 10000 is a four-decimal value nearest to n / d, d > 0
NearestFourDecimals(r, n, d) ==
    LET diff == r * d - 10000 * n
    IN 2 * (IF diff < 0 THEN -diff ELSE diff) <= d

\* the daily returns of 100, 110, 99 are 0, 0.10, -0.1
ExampleDailyReturns ==
    get_daily_returns(<<[t |-> 0, p |-> 100], [t |-> 1, p |-> 110], [t |-> 2, p |-> 99]>>)
        = <<0, 1000, -1000>>

\* C22: get_daily_returns(P) has the length of P, 0 as its first element
\* and round((P[i] - P[i-1]) / P[i-1], 4) as each later one, P taken in
\* ascending date order; 100, 110, 99 gives 0, 0.10, -0.1.
C22_DailyReturns ==
    [][/\ ExampleDailyReturns
       /\ (pc = "idle" /\ query'.op = "get_daily_returns") =>
             /\ result'.k = "Series"
             /\ Len(result'.v) = Len(prices)
             /\ \A i \in 1..Len(prices) :
                   IF i = 1 THEN result'.v[i] = 0
                   ELSE NearestFourDecimals(
                            result'.v[i],
                            InDateOrder(prices, i).p - InDateOrder(prices, i - 1).p,
                            InDateOrder(prices, i - 1).p)]_vars

\* daily returns of three prices or more, one a rise, one a fall that
\* four decimals do not express exactly
C22_Witness ==
    /\ query.op = "get_daily_returns"
    /\ Len(result.v) >= 3
    /\ \E i \in 1..Len(result.v) : result.v[i] > 0
    /\ \E i \in 1..Len(result.v) : result.v[i] < 0 /\ result.v[i] % 100 # 0

\* the lowest price of the window from its i-th day on
LowestFrom(w, i) ==
    CHOOSE low \in {w[j].p : j \in i..Len(w)} : \A j \in i..Len(w) : low <= w[j].p

StartedInWindow(items) ==
    LET Started(x) == query.time <= x.period.start_time
                        /\ x.period.start_time <= query.end_date
    IN SelectSeq(items, Started)

\* the portfolio of a period is worth more at the period's end than at its start
Wins(x) ==
    RefNetLiquidation(x.portfolio, df_price, x.period.end_time)
        > RefNetLiquidation(x.portfolio, df_price, x.period.start_time)

\* C24: get_win_rate is the number of counted periods worth strictly more
\* at their end_time than at their start_time, over the number of counted
\* periods; counted are the recorded periods starting in
\* [start_date, end_date] except the first; equal values are no win.
C24_WinRate ==
    (query.op = "get_win_rate" /\ Len(StartedInWindow(holdings)) >= 2) =>
        LET counted == Tail(StartedInWindow(holdings))
            wins == Cardinality({i \in 1..Len(counted) : Wins(counted[i])})
        IN /\ result.k = "frac"
           /\ result.n * Len(counted) = wins * result.d

\* the long shares of book a that book b does not hold, valued on day
AddedValue(a, b, day) ==
    LET Diff(t) == a[t] - (IF t \in DOMAIN b THEN b[t] ELSE 0)
        added == [t \in {x \in DOMAIN a : Diff(x) > 0} |-> Diff(t)]
    IN RefPositions(df_price, day, added, DOMAIN added)

\* twice the turnover summed over the boundaries after periods 1..n-1
RECURSIVE RefTurnover(_, _)
RefTurnover(periods, n) ==
    IF n <= 1 THEN 0
    ELSE RefTurnover(periods, n - 1)
           + AddedValue(periods[n].portfolio.long, periods[n - 1].portfolio.long,
                        periods[n - 1].period.end_time)
           + AddedValue(periods[n - 1].portfolio.long, periods[n].portfolio.long,
                        periods[n - 1].period.end_time)

\* C25: over a Holdings with two periods or more get_turnover_ratio returns
\* the sum over the rebalance boundaries of the average of the values of
\* the long shares added and removed, divided by the years spanned and by
\* the average of the first period's starting and the last period's ending
\* net liquidation.
C25_TurnoverRatio ==
    (query.op = "get_turnover_ratio" /\ Len(StartedInWindow(holdings)) >= 2) =>
        LET periods == StartedInWindow(holdings)
            first == periods[1]
            last == periods[Len(periods)]
            years == Ymd(last.period.end_time).y - Ymd(first.period.start_time).y
            liquidation ==
                RefNetLiquidation(first.portfolio, df_price, first.period.start_time)
                  + RefNetLiquidation(last.portfolio, df_price, last.period.end_time)
        IN /\ ~IsErr(result)
           /\ result.k = "frac" =>
                 result.n * years * liquidation
                     = RefTurnover(periods, Len(periods)) * result.d
====
